---- MODULE Spec2Model ----
(***************************************************************************)
(* PDF Organizer: the /api/organize-pdfs request of app.py as a state      *)
(* machine.  A page's text is the sequence of its whitespace-separated     *)
(* tokens; the uploaded documents are sequences of page texts.             *)
(***************************************************************************)
EXTENDS Integers, Sequences, FiniteSets, TLC

\* ------------------------------------------------------------------ bounds
MaxChecklistPages == 2
MaxLabelPages == 3
\* Largest quantity handed to create_status_overlay on its own.
MaxQty == 10
\* Most groups and unmatched labels handed to create_summary_page on its own.
MaxGroups == 9
MaxUnmatched == 5

\* ------------------------------------------------------------------ tokens
\* Tokens the first pattern of extract_skus_from_text accepts.
Pattern1Tokens == {"N5-96TU-TT9Z", "Y2-CCCC-DDDD"}
\* Tokens the second pattern accepts (B followed by 9 or 10 alphanumerics).
Pattern2Tokens == {"B0090IFLG6"}
\* Tokens the third pattern accepts (one letter, one digit, 4, 4).
Pattern3Tokens == {"N5-96TU-TT9Z", "Y2-CCCC-DDDD"}
\* Tokens that start with a run of digits, i.e. what (\d+) captures.
DigitTokens == {"1", "2", "12345"}
\* Tokens Qty[:\s]+ accepts (re.IGNORECASE).
QtyMarkers == {"Qty:", "QTY"}

\* Python's None for a label without a code: a value no string of the
\* inputs equals.
None == "<None>"

\* int(match.group(1))
int(tok) ==
  CASE tok = "1" -> 1
    [] tok = "2" -> 2
    [] tok = "12345" -> 12345
    [] OTHER -> 0

\* str.strip() of a CSV field
strip(field) ==
  CASE field = " B0090IFLG6" -> "B0090IFLG6"
    [] field = "N5-96TU-TT9Z " -> "N5-96TU-TT9Z"
    [] OTHER -> field

\* ------------------------------------------------------------------ inputs
\* Page texts of the checklist document.
ChecklistTexts ==
  { <<"N5-96TU-TT9Z", "2">>,
    <<"B0090IFLG6", "1", "N5-96TU-TT9Z", "1">>,
    <<"PO", "12345">>,
    <<"Y2-CCCC-DDDD">> }

\* Page texts of the label document.
LabelTexts ==
  { <<"N5-96TU-TT9Z">>,
    <<"B0090IFLG6", "Qty:", "2">>,
    <<"Order">>,
    <<"B0090IFLG6", "Y2-CCCC-DDDD", "QTY", "1">> }

\* csv_data: a sequence of lines, each the sequence of its comma-separated
\* fields (a line without a comma has one field).
CsvInputs ==
  { <<>>,
    << <<"Y2-CCCC-DDDD", " B0090IFLG6">>, <<"N5-96TU-TT9Z ", "B0090IFLG6">> >>,
    << <<"Y2-CCCC-DDDD", "B0090IFLG6">>, <<"junk">>, <<"Y2-CCCC-DDDD", "">> >> }

SeqsUpTo(T, n) == UNION {[1..k -> T] : k \in 0..n}

\* request.files.get(name): None when the part is absent.
NoFile == [present |-> FALSE, pages |-> <<>>]
Uploads(T, n) == {NoFile} \cup {[present |-> TRUE, pages |-> s] : s \in SeqsUpTo(T, n)}

VARIABLES
  checklist_file,       \* request.files.get('checklist')
  labels_file,          \* request.files.get('labels')
  csv_data,             \* request.form.get('csv_data', '')
  pc,                   \* position in organize_pdfs
  sku_mapping,          \* dict: checklist code -> label code
  checklists,           \* list of checklist records (pages with codes)
  labels,               \* list of label records
  labels_by_sku,        \* defaultdict(list): code -> labels
  matched_label_pages,  \* set of label page_num
  matched_groups,       \* list of (checklist, matching_labels)
  unmatched_labels,     \* list of label records
  writer,               \* PdfWriter pages, in order
  written,              \* groups the assembly loop has emitted
  response,             \* what the handler returned
  other                 \* the locals of a second request served at the same time

\* The locals of the request.
own == <<checklist_file, labels_file, csv_data, pc, sku_mapping, checklists,
         labels, labels_by_sku, matched_label_pages, matched_groups,
         unmatched_labels, writer, written, response>>

vars == <<own, other>>

\* ------------------------------------------------------------------ helpers
RECURSIVE unique(_, _)
\* the seen/unique_skus loop of extract_skus_from_text
unique(skus, seen) ==
  IF skus = <<>> THEN <<>>
  ELSE IF Head(skus) \in seen THEN unique(Tail(skus), seen)
  ELSE <<Head(skus)>> \o unique(Tail(skus), seen \cup {Head(skus)})

\* re.findall of one pattern over the text
findall(pattern, text) == SelectSeq(text, LAMBDA tok : tok \in pattern)

extract_skus_from_text(text) ==
  unique(findall(Pattern1Tokens, text) \o findall(Pattern2Tokens, text)
           \o findall(Pattern3Tokens, text), {})

\* re.search(rf'{re.escape(sku)}\s+(\d+)', text): the first place where the
\* code is followed by digits; 0 when there is none.
checklist_qty(sku, text) ==
  LET hits == {i \in 1..(Len(text) - 1) : text[i] = sku /\ text[i + 1] \in DigitTokens}
  IN IF hits = {} THEN 0
     ELSE int(text[(CHOOSE i \in hits : \A j \in hits : i <= j) + 1])

\* re.search(r'Qty[:\s]+(\d+)', text, re.IGNORECASE); 1 when there is none.
label_qty(text) ==
  LET hits == {i \in 1..(Len(text) - 1) : text[i] \in QtyMarkers /\ text[i + 1] \in DigitTokens}
  IN IF hits = {} THEN 1
     ELSE int(text[(CHOOSE i \in hits : \A j \in hits : i <= j) + 1])

\* ------------------------------------------------------------------ parsing
\* The record appended for a checklist page that carries codes (447-465).
checklist_record(i, text) ==
  LET skus == extract_skus_from_text(text)
  IN [page_num |-> i,
      skus |-> skus,
      sku_quantities |-> [sku \in {skus[k] : k \in 1..Len(skus)} |-> checklist_qty(sku, text)],
      text |-> text]

RECURSIVE parse_checklist_needs_qty(_, _)
\* Mutant: a page with a code that has no printed quantity is skipped too.
parse_checklist_needs_qty(pages, i) ==
  IF i > Len(pages) THEN <<>>
  ELSE LET skus == extract_skus_from_text(pages[i])
       IN IF skus = <<>> \/ \E k \in 1..Len(skus) : checklist_qty(skus[k], pages[i]) = 0
          THEN parse_checklist_needs_qty(pages, i + 1)
          ELSE <<checklist_record(i, pages[i])>> \o parse_checklist_needs_qty(pages, i + 1)

RECURSIVE parse_checklist(_, _)
\* The loop over the checklist pages: a page without codes is skipped.
parse_checklist(pages, i) ==
  IF i > Len(pages) THEN <<>>
  ELSE IF extract_skus_from_text(pages[i]) = <<>> THEN parse_checklist(pages, i + 1)
  ELSE <<checklist_record(i, pages[i])>> \o parse_checklist(pages, i + 1)

\* sku = skus[0] if skus else None
label_sku(text) ==
  LET skus == extract_skus_from_text(text)
  IN IF skus = <<>> THEN None ELSE skus[1]

\* The record appended for every label page (496-515).
label_record(i, text) ==
  [page_num |-> i, sku |-> label_sku(text), qty |-> label_qty(text), text |-> text]

parse_labels(pages) == [i \in 1..Len(pages) |-> label_record(i, pages[i])]

RECURSIVE parse_csv(_, _)
\* The loop over the lines of csv_data: a later line overwrites an earlier key.
parse_csv(lines, mapping) ==
  IF lines = <<>> THEN mapping
  ELSE LET parts == Head(lines)
           key == strip(parts[1])
       IN IF Len(parts) >= 2
          THEN parse_csv(Tail(lines),
                 [k \in DOMAIN mapping \cup {key} |->
                    IF k = key THEN strip(parts[2]) ELSE mapping[k]])
          ELSE parse_csv(Tail(lines), mapping)

EmptyDict == [k \in {} |-> ""]

\* ------------------------------------------------------------------ matching
\* labels_by_sku[label['sku']].append(label) for every label with a code.
index_labels(lbls) ==
  LET keys == {lbls[i].sku : i \in {j \in 1..Len(lbls) : lbls[j].sku # None}}
  IN [sku \in keys |-> SelectSeq(lbls, LAMBDA label : label.sku = sku)]

RECURSIVE add_labels_no_dedup(_, _)
\* Mutant: the added_to_this_checklist test is missing.
add_labels_no_dedup(st, cands) ==
  IF cands = <<>> THEN st
  ELSE add_labels_no_dedup(
         [matching_labels |-> Append(st.matching_labels, Head(cands)),
          matched_label_pages |-> st.matched_label_pages \cup {Head(cands).page_num},
          added_to_this_checklist |-> st.added_to_this_checklist \cup {Head(cands).page_num}],
         Tail(cands))

RECURSIVE add_labels_prepend(_, _)
\* Mutant: a new label is put at the front of the group.
add_labels_prepend(st, cands) ==
  IF cands = <<>> THEN st
  ELSE LET label == Head(cands)
       IN IF label.page_num \notin st.added_to_this_checklist
          THEN add_labels_prepend(
                 [matching_labels |-> <<label>> \o st.matching_labels,
                  matched_label_pages |-> st.matched_label_pages \cup {label.page_num},
                  added_to_this_checklist |-> st.added_to_this_checklist \cup {label.page_num}],
                 Tail(cands))
          ELSE add_labels_prepend(st, Tail(cands))

RECURSIVE add_labels(_, _)
\* The inner loop over the labels under one code (547-552 and 559-564).
\* st = [matching_labels, matched_label_pages, added_to_this_checklist]
add_labels(st, cands) ==
  IF cands = <<>> THEN st
  ELSE LET label == Head(cands)
       IN IF label.page_num \notin st.added_to_this_checklist
          THEN add_labels(
                 [matching_labels |-> Append(st.matching_labels, label),
                  matched_label_pages |-> st.matched_label_pages \cup {label.page_num},
                  added_to_this_checklist |-> st.added_to_this_checklist \cup {label.page_num}],
                 Tail(cands))
          ELSE add_labels(st, Tail(cands))

\* Mutant: the CSV mapping is consulted before the direct lookup.
match_sku_alias_first(st, sku, by_sku, mapping) ==
  IF mapping # EmptyDict /\ sku \in DOMAIN mapping /\ mapping[sku] \in DOMAIN by_sku
  THEN add_labels(st, by_sku[mapping[sku]])
  ELSE IF sku \in DOMAIN by_sku
       THEN add_labels(st, by_sku[sku])
       ELSE st

\* One iteration of `for sku in checklist['skus']` (542-568).
match_sku(st, sku, by_sku, mapping) ==
  IF sku \in DOMAIN by_sku
  THEN add_labels(st, by_sku[sku])
  ELSE IF mapping # EmptyDict /\ sku \in DOMAIN mapping
       THEN IF mapping[sku] \in DOMAIN by_sku
            THEN add_labels(st, by_sku[mapping[sku]])
            ELSE st
       ELSE st

RECURSIVE match_skus(_, _, _, _)
match_skus(st, skus, by_sku, mapping) ==
  IF skus = <<>> THEN st
  ELSE match_skus(match_sku(st, Head(skus), by_sku, mapping), Tail(skus), by_sku, mapping)

\* Mutant: the global set is reset for every checklist.
match_checklist_reset(checklist, matched, by_sku, mapping) ==
  match_skus([matching_labels |-> <<>>,
              matched_label_pages |-> {},
              added_to_this_checklist |-> {}],
             checklist.skus, by_sku, mapping)

\* One iteration of `for checklist in checklists` (537-570).
match_checklist(checklist, matched, by_sku, mapping) ==
  match_skus([matching_labels |-> <<>>,
              matched_label_pages |-> matched,
              added_to_this_checklist |-> {}],
             checklist.skus, by_sku, mapping)

\* Mutant: the unmatched labels are taken from the indexed labels only.
find_unmatched_indexed(lbls, matched) ==
  SelectSeq(lbls, LAMBDA label : label.sku # None /\ label.page_num \notin matched)

\* unmatched_labels = [label for label in labels if page_num not in matched]
find_unmatched(lbls, matched) ==
  SelectSeq(lbls, LAMBDA label : label.page_num \notin matched)

\* ------------------------------------------------------------------ pages
RECURSIVE sum_values(_)
\* sum(checklist['sku_quantities'].values())
sum_values(d) ==
  IF DOMAIN d = {} THEN 0
  ELSE LET k == CHOOSE x \in DOMAIN d : TRUE
       IN d[k] + sum_values([x \in DOMAIN d \ {k} |-> d[x]])

\* Mutant: the label pages are counted.
sum_qty_count(lbls) == Len(lbls)

RECURSIVE sum_qty(_)
\* sum(label.get('qty', 1) for label in matching_labels)
sum_qty(lbls) ==
  IF lbls = <<>> THEN 0 ELSE Head(lbls).qty + sum_qty(Tail(lbls))

\* Mutant: the difference is taken the other way round.
create_status_overlay_swapped(expected_qty, actual_qty) ==
  LET difference == expected_qty - actual_qty
  IN IF difference = 0
     THEN [status |-> "MATCH", expected |-> expected_qty, actual |-> actual_qty, count |-> 0]
     ELSE IF difference > 0
     THEN [status |-> "SURPLUS", expected |-> expected_qty, actual |-> actual_qty,
           count |-> difference]
     ELSE [status |-> "SHORTAGE", expected |-> expected_qty, actual |-> actual_qty,
           count |-> -difference]

\* The banner create_status_overlay draws: its status and the count it states.
create_status_overlay(expected_qty, actual_qty) ==
  LET difference == actual_qty - expected_qty
  IN IF difference = 0
     THEN [status |-> "MATCH", expected |-> expected_qty, actual |-> actual_qty, count |-> 0]
     ELSE IF difference > 0
     THEN [status |-> "SURPLUS", expected |-> expected_qty, actual |-> actual_qty,
           count |-> difference]
     ELSE [status |-> "SHORTAGE", expected |-> expected_qty, actual |-> actual_qty,
           count |-> IF difference < 0 THEN -difference ELSE difference]

NoContent == [status |-> "", expected |-> 0, actual |-> 0, count |-> 0]

\* create_summary_page(..., width=612, height=792): the default page height.
PageHeight == 792
\* `if y < 200: break`: the lowest place a group row is drawn at.
MinRowY == 200
\* `y -= 50`: the height of a group row.
RowHeight == 50
\* `if len(matched_groups) > 4` and `len(matched_groups) - 4`.
MoreOrdersAfter == 4
\* `unmatched_labels[:3]`, `len(unmatched_labels) > 3` and `- 3`.
UnmatchedPreview == 3
\* `page_num = 2`: the summary is page 1.
FirstContentPage == 2

\* y when the loop over the groups starts (120, 136, 143).
FirstRowY == PageHeight - 150 - 110 - 25

RECURSIVE summary_rows_no_step(_, _, _, _)
\* Mutant: the next group is taken to start on the last page of this one.
summary_rows_no_step(groups, i, y, page_num) ==
  IF i > Len(groups) \/ y < MinRowY THEN <<>>
  ELSE LET expected == sum_values(groups[i].checklist.sku_quantities)
           actual == sum_qty(groups[i].matching_labels)
           diff == actual - expected
           end_page == page_num + Len(groups[i].matching_labels)
       IN <<[index |-> i, expected |-> expected, actual |-> actual,
             status |-> IF diff = 0 THEN "MATCH" ELSE IF diff > 0 THEN "SURPLUS" ELSE "SHORTAGE",
             first_page |-> page_num, last_page |-> end_page]>>
          \o summary_rows_no_step(groups, i + 1, y - RowHeight, end_page)

RECURSIVE summary_rows(_, _, _, _)
\* The loop that draws one row per group (148-196), from the i-th group on.
summary_rows(groups, i, y, page_num) ==
  IF i > Len(groups) \/ y < MinRowY THEN <<>>
  ELSE LET expected == sum_values(groups[i].checklist.sku_quantities)
           actual == sum_qty(groups[i].matching_labels)
           diff == actual - expected
           end_page == page_num + Len(groups[i].matching_labels)
       IN <<[index |-> i, expected |-> expected, actual |-> actual,
             status |-> IF diff = 0 THEN "MATCH" ELSE IF diff > 0 THEN "SURPLUS" ELSE "SHORTAGE",
             first_page |-> page_num, last_page |-> end_page]>>
          \o summary_rows(groups, i + 1, y - RowHeight, end_page + 1)

\* What create_summary_page draws: the totals, the group rows with their
\* "more orders" line, the unmatched preview with its "more" line.
create_summary_page(groups, unmatched, total_labels) ==
  [total_checklists |-> Len(groups),
   total_labels |-> total_labels,
   listed |-> summary_rows(groups, 1, FirstRowY, FirstContentPage),
   more_orders |-> IF Len(groups) > MoreOrdersAfter
                   THEN [shown |-> TRUE, n |-> Len(groups) - MoreOrdersAfter]
                   ELSE [shown |-> FALSE, n |-> 0],
   unmatched_listed |-> IF unmatched # <<>>
                        THEN [k \in 1..(IF Len(unmatched) < UnmatchedPreview
                                        THEN Len(unmatched) ELSE UnmatchedPreview) |->
                                unmatched[k].sku]
                        ELSE <<>>,
   more_unmatched |-> IF unmatched # <<>> /\ Len(unmatched) > UnmatchedPreview
                      THEN [shown |-> TRUE, n |-> Len(unmatched) - UnmatchedPreview]
                      ELSE [shown |-> FALSE, n |-> 0]]

summary_page(groups, unmatched, total_labels) ==
  [kind |-> "summary", page_num |-> 0,
   content |-> create_summary_page(groups, unmatched, total_labels)]

separator_page(unmatched_count) ==
  [kind |-> "separator", page_num |-> 0,
   content |-> [status |-> "", expected |-> 0, actual |-> 0, count |-> unmatched_count]]

label_page(label) == [kind |-> "label", page_num |-> label.page_num, content |-> NoContent]

label_pages(lbls) == [i \in 1..Len(lbls) |-> label_page(lbls[i])]

\* The pages one iteration of the assembly loop adds (595-616).
group_pages(group) ==
  LET total_expected == sum_values(group.checklist.sku_quantities)
      total_actual == sum_qty(group.matching_labels)
  IN <<[kind |-> "checklist", page_num |-> group.checklist.page_num,
        content |-> create_status_overlay(total_expected, total_actual)]>>
     \o label_pages(group.matching_labels)

\* Mutant: the separator page is added whether or not a label is unmatched.
unmatched_pages_always(unmatched) ==
  <<separator_page(Len(unmatched))>> \o label_pages(unmatched)

\* The unmatched section (619-628).
unmatched_pages(unmatched) ==
  IF unmatched # <<>>
  THEN <<separator_page(Len(unmatched))>> \o label_pages(unmatched)
  ELSE <<>>

\* ------------------------------------------------------------------ responses
NoResponse == [code |-> 0, error |-> "", pages |-> <<>>]
Error(code, msg) == [code |-> code, error |-> msg, pages |-> <<>>]
SendFile(pages) == [code |-> 200, error |-> "", pages |-> pages]

\* The locals of a request that has just arrived with its uploads.
Request(cf, lf, csv) ==
  [checklist_file |-> cf, labels_file |-> lf, csv_data |-> csv, pc |-> "request",
   sku_mapping |-> EmptyDict, checklists |-> <<>>, labels |-> <<>>,
   labels_by_sku |-> [k \in {} |-> <<>>], matched_label_pages |-> {},
   matched_groups |-> <<>>, unmatched_labels |-> <<>>, writer |-> <<>>, written |-> 0,
   response |-> NoResponse]

\* No second request is being served.
NoRequest == [Request(NoFile, NoFile, <<>>) EXCEPT !.pc = "absent"]

\* ------------------------------------------------------------------ actions
Init ==
  /\ checklist_file \in Uploads(ChecklistTexts, MaxChecklistPages)
  /\ labels_file \in Uploads(LabelTexts, MaxLabelPages)
  /\ csv_data \in CsvInputs
  /\ pc = "request"
  /\ sku_mapping = EmptyDict
  /\ checklists = <<>>
  /\ labels = <<>>
  /\ labels_by_sku = [k \in {} |-> <<>>]
  /\ matched_label_pages = {}
  /\ matched_groups = <<>>
  /\ unmatched_labels = <<>>
  /\ writer = <<>>
  /\ written = 0
  /\ response = NoResponse
  /\ other = NoRequest

\* 393-419: the uploaded parts are checked and the CSV mapping is parsed.
ReceiveRequest ==
  /\ pc = "request"
  /\ IF ~checklist_file.present
     THEN /\ response' = Error(400, "No checklist file uploaded")
          /\ pc' = "error"
          /\ UNCHANGED sku_mapping
     ELSE IF ~labels_file.present
     THEN /\ response' = Error(400, "No labels file uploaded")
          /\ pc' = "error"
          /\ UNCHANGED sku_mapping
     ELSE /\ sku_mapping' = (IF csv_data # <<>> THEN parse_csv(csv_data, EmptyDict) ELSE EmptyDict)
          /\ pc' = "checklist"
          /\ UNCHANGED response
  /\ UNCHANGED <<other, checklist_file, labels_file, csv_data, checklists, labels, labels_by_sku,
                 matched_label_pages, matched_groups, unmatched_labels, writer, written>>

\* Mutant: the `if not checklists` test is missing.
ProcessChecklist_no_check ==
  /\ pc = "checklist"
  /\ checklists' = parse_checklist(checklist_file.pages, 1)
  /\ pc' = "labels"
  /\ UNCHANGED <<other, checklist_file, labels_file, csv_data, sku_mapping, labels, labels_by_sku,
                 matched_label_pages, matched_groups, unmatched_labels, writer, written,
                 response>>

\* 421-477: the checklist document is read and parsed.
ProcessChecklist ==
  /\ pc = "checklist"
  /\ LET parsed == parse_checklist(checklist_file.pages, 1)
     IN IF parsed = <<>>
        THEN /\ response' = Error(400, "No SKUs found in checklist PDF")
             /\ pc' = "error"
             /\ UNCHANGED checklists
        ELSE /\ checklists' = parsed
             /\ pc' = "labels"
             /\ UNCHANGED response
  /\ UNCHANGED <<other, checklist_file, labels_file, csv_data, sku_mapping, labels, labels_by_sku,
                 matched_label_pages, matched_groups, unmatched_labels, writer, written>>

\* 423-429, 466-470: PdfReader or pdfplumber raises on the checklist document.
ChecklistUnreadable ==
  /\ pc = "checklist"
  /\ \E code \in {400, 500} :
       response' = Error(code, IF code = 400 THEN "Could not read checklist PDF"
                               ELSE "Error extracting text from checklist")
  /\ pc' = "error"
  /\ UNCHANGED <<other, checklist_file, labels_file, csv_data, sku_mapping, checklists, labels,
                 labels_by_sku, matched_label_pages, matched_groups, unmatched_labels,
                 writer, written>>

\* 479-535: the label document is read and parsed, the labels are indexed by code.
ProcessLabels ==
  /\ pc = "labels"
  /\ labels' = parse_labels(labels_file.pages)
  /\ labels_by_sku' = index_labels(labels')
  /\ matched_label_pages' = {}
  /\ matched_groups' = <<>>
  /\ pc' = "match"
  /\ UNCHANGED <<other, checklist_file, labels_file, csv_data, sku_mapping, checklists,
                 unmatched_labels, writer, written, response>>

\* 481-487, 516-520: PdfReader or pdfplumber raises on the label document.
LabelsUnreadable ==
  /\ pc = "labels"
  /\ \E code \in {400, 500} :
       response' = Error(code, IF code = 400 THEN "Could not read labels PDF"
                               ELSE "Error extracting text from labels")
  /\ pc' = "error"
  /\ UNCHANGED <<other, checklist_file, labels_file, csv_data, sku_mapping, checklists, labels,
                 labels_by_sku, matched_label_pages, matched_groups, unmatched_labels,
                 writer, written>>

\* 537-570: one iteration of the loop over the checklists.
MatchChecklist ==
  /\ pc = "match"
  /\ Len(matched_groups) < Len(checklists)
  /\ LET checklist == checklists[Len(matched_groups) + 1]
         st == match_checklist(checklist, matched_label_pages, labels_by_sku, sku_mapping)
     IN /\ matched_groups' = Append(matched_groups,
                               [checklist |-> checklist, matching_labels |-> st.matching_labels])
        /\ matched_label_pages' = st.matched_label_pages
  /\ UNCHANGED <<other, checklist_file, labels_file, csv_data, pc, sku_mapping, checklists, labels,
                 labels_by_sku, unmatched_labels, writer, written, response>>

\* 573-592: the unmatched labels are collected and the summary page is added.
AddSummaryPage ==
  /\ pc = "match"
  /\ Len(matched_groups) = Len(checklists)
  /\ unmatched_labels' = find_unmatched(labels, matched_label_pages)
  /\ writer' = <<summary_page(matched_groups, unmatched_labels', Len(labels))>>
  /\ written' = 0
  /\ pc' = "assemble"
  /\ UNCHANGED <<other, checklist_file, labels_file, csv_data, sku_mapping, checklists, labels,
                 labels_by_sku, matched_label_pages, matched_groups, response>>

\* 595-616: one iteration of the loop over the matched groups.
AddGroup ==
  /\ pc = "assemble"
  /\ written < Len(matched_groups)
  /\ writer' = writer \o group_pages(matched_groups[written + 1])
  /\ written' = written + 1
  /\ UNCHANGED <<other, checklist_file, labels_file, csv_data, pc, sku_mapping, checklists, labels,
                 labels_by_sku, matched_label_pages, matched_groups, unmatched_labels,
                 response>>

\* Mutant: the pages written before the failure are sent.
RenderFailure_partial ==
  /\ pc = "assemble"
  /\ written < Len(matched_groups)
  /\ response' = SendFile(writer)
  /\ pc' = "done"
  /\ UNCHANGED <<other, checklist_file, labels_file, csv_data, sku_mapping, checklists, labels,
                 labels_by_sku, matched_label_pages, matched_groups, unmatched_labels,
                 writer, written>>

\* 92-94, 654-658: create_status_overlay raises; the handler answers 500.
RenderFailure ==
  /\ pc = "assemble"
  /\ written < Len(matched_groups)
  /\ response' = Error(500, "Error creating final PDF")
  /\ pc' = "error"
  /\ UNCHANGED <<other, checklist_file, labels_file, csv_data, sku_mapping, checklists, labels,
                 labels_by_sku, matched_label_pages, matched_groups, unmatched_labels,
                 writer, written>>

\* 618-652: the unmatched section is added and the document is sent.
Finish ==
  /\ pc = "assemble"
  /\ written = Len(matched_groups)
  /\ writer' = writer \o unmatched_pages(unmatched_labels)
  /\ response' = SendFile(writer')
  /\ pc' = "done"
  /\ UNCHANGED <<other, checklist_file, labels_file, csv_data, sku_mapping, checklists, labels,
                 labels_by_sku, matched_label_pages, matched_groups, unmatched_labels,
                 written>>

Next ==
  \/ ReceiveRequest
  \/ ProcessChecklist
  \/ ChecklistUnreadable
  \/ ProcessLabels
  \/ LabelsUnreadable
  \/ MatchChecklist
  \/ AddSummaryPage
  \/ AddGroup
  \/ RenderFailure
  \/ Finish

Spec == Init /\ [][Next]_vars

\* ------------------------------------------------------------------ overlay alone
\* create_status_overlay applied to every pair of quantities up to MaxQty.
InitOverlay ==
  /\ checklist_file = NoFile
  /\ labels_file = NoFile
  /\ csv_data = <<>>
  /\ pc = "overlay"
  /\ sku_mapping = EmptyDict
  /\ checklists = <<>>
  /\ labels = <<>>
  /\ labels_by_sku = [k \in {} |-> <<>>]
  /\ matched_label_pages = {}
  /\ matched_groups = <<>>
  /\ unmatched_labels = <<>>
  /\ writer = <<>>
  /\ written = 0
  /\ response = NoResponse
  /\ other = NoRequest

\* 609-613: the banner for (expected, actual) is drawn and put on a checklist page.
DrawOverlay ==
  /\ pc = "overlay"
  /\ writer = <<>>
  /\ \E expected_qty, actual_qty \in 0..MaxQty :
       writer' = <<[kind |-> "checklist", page_num |-> 1,
                    content |-> create_status_overlay(expected_qty, actual_qty)]>>
  /\ UNCHANGED <<other, checklist_file, labels_file, csv_data, pc, sku_mapping, checklists, labels,
                 labels_by_sku, matched_label_pages, matched_groups, unmatched_labels,
                 written, response>>

NextOverlay == DrawOverlay

SpecOverlay == InitOverlay /\ [][NextOverlay]_vars

\* ------------------------------------------------------------------ summary alone
\* n match groups without labels and u unmatched labels without a code.
GroupsOf(n) ==
  [i \in 1..n |-> [checklist |-> checklist_record(i, <<"N5-96TU-TT9Z", "2">>),
                   matching_labels |-> <<>>]]
UnmatchedOf(u) == [i \in 1..u |-> label_record(i, <<"Order">>)]

\* create_summary_page applied to every number of groups and unmatched labels.
InitSummary ==
  /\ checklist_file = NoFile
  /\ labels_file = NoFile
  /\ csv_data = <<>>
  /\ pc = "summary"
  /\ sku_mapping = EmptyDict
  /\ checklists = <<>>
  /\ \E u \in 0..MaxUnmatched :
       /\ labels = UnmatchedOf(u)
       /\ unmatched_labels = UnmatchedOf(u)
  /\ labels_by_sku = [k \in {} |-> <<>>]
  /\ matched_label_pages = {}
  /\ \E n \in 0..MaxGroups : matched_groups = GroupsOf(n)
  /\ writer = <<>>
  /\ written = 0
  /\ response = NoResponse
  /\ other = NoRequest

\* 589-591: the summary page is drawn and added.
DrawSummary ==
  /\ pc = "summary"
  /\ writer' = <<summary_page(matched_groups, unmatched_labels, Len(labels))>>
  /\ pc' = "summary_done"
  /\ UNCHANGED <<other, checklist_file, labels_file, csv_data, sku_mapping, checklists, labels,
                 labels_by_sku, matched_label_pages, matched_groups, unmatched_labels,
                 written, response>>

NextSummary == DrawSummary

SpecSummary == InitSummary /\ [][NextSummary]_vars

\* ------------------------------------------------------------------ app[1].py
\* The earlier pipeline: process_pdf, match_by_sku, create_organized_pdf.
\* Page texts of its checklist document.
ChecklistTexts1 ==
  { <<"B0090IFLG6", "1">>,
    <<"PO", "12345">>,
    <<"N5-96TU-TT9Z", "2">> }

\* Page texts of its label document.
LabelTexts1 ==
  { <<"N5-96TU-TT9Z">>,
    <<"SKU:", "B0090IFLG6-A">>,
    <<"Order">> }

\* csv_data: the rows under the header checklist_sku,label_sku.
CsvInputs1 ==
  { <<>>,
    << <<"B0090IFLG6", "N5-96TU-TT9Z">> >> }

\* Tokens ([A-Z0-9-]{10,15}) captures after SKU and [:\s]*.
SkuFieldTokens == {"B0090IFLG6-A", "N5-96TU-TT9Z"}

\* Python's `a in b` on the strings of the inputs: a is a substring of b.
contains(a, b) == a = b \/ (a = "B0090IFLG6" /\ b = "B0090IFLG6-A")

\* list(set(re.findall(r'\b(B[A-Z0-9]{9,10})\b', text, re.IGNORECASE))): the
\* order of the list is never used, the codes are kept as a set.
extract_sku_from_checklist(text) ==
  {text[i] : i \in {j \in 1..Len(text) : text[j] \in Pattern2Tokens}}

\* The first pattern that is found gives the code; None when none is.
extract_sku_from_label(text) ==
  LET hits1 == {i \in 1..(Len(text) - 1) : text[i] = "SKU:" /\ text[i + 1] \in SkuFieldTokens}
      hits2 == {i \in 1..Len(text) : text[i] \in Pattern3Tokens}
  IN IF hits1 # {} THEN text[(CHOOSE i \in hits1 : \A j \in hits1 : i <= j) + 1]
     ELSE IF hits2 # {} THEN text[CHOOSE i \in hits2 : \A j \in hits2 : i <= j]
     ELSE None

\* process_pdf(path, is_checklist=True): one record per page.
process_pdf_checklist(pages) ==
  [i \in 1..Len(pages) |->
     [page_num |-> i, skus |-> extract_sku_from_checklist(pages[i]), text |-> pages[i]]]

\* process_pdf(path, is_checklist=False): one record per page.
process_pdf_labels(pages) ==
  [i \in 1..Len(pages) |->
     [page_num |-> i, sku |-> extract_sku_from_label(pages[i]), text |-> pages[i]]]

RECURSIVE read_csv(_, _)
\* The loop over the rows of the CSV (133-137).
read_csv(rows, mapping) ==
  IF rows = <<>> THEN mapping
  ELSE LET checklist_sku == strip(Head(rows)[1])
           lbl_sku == strip(Head(rows)[2])
       IN IF checklist_sku # "" /\ lbl_sku # ""
          THEN read_csv(Tail(rows),
                 [k \in DOMAIN mapping \cup {checklist_sku} |->
                    IF k = checklist_sku THEN lbl_sku ELSE mapping[k]])
          ELSE read_csv(Tail(rows), mapping)

\* `None in sku` raises TypeError: a label without a code is tested against
\* a checklist page that has codes.
match_raises(chks, lbls) ==
  /\ \E c \in 1..Len(chks) : chks[c].skus # {}
  /\ \E l \in 1..Len(lbls) : lbls[l].sku = None

\* The test of one label against one checklist page (147-160).
label_matches(checklist, label, mapping) ==
  \/ \E sku \in checklist.skus : contains(label.sku, sku) \/ contains(sku, label.sku)
  \/ /\ mapping # EmptyDict
     /\ \E checklist_sku \in checklist.skus :
          /\ checklist_sku \in DOMAIN mapping
          /\ \/ contains(label.sku, mapping[checklist_sku])
             \/ contains(mapping[checklist_sku], label.sku)

\* match_by_sku: one group per checklist page, the matching labels in the
\* order of the label document.
match_by_sku(chks, lbls, mapping) ==
  [c \in 1..Len(chks) |->
     [checklist |-> chks[c],
      matching_labels |-> SelectSeq(lbls, LAMBDA label : label_matches(chks[c], label, mapping))]]

RECURSIVE create_organized_pdf(_)
\* create_organized_pdf: per group the checklist page, then its labels.
create_organized_pdf(groups) ==
  IF groups = <<>> THEN <<>>
  ELSE <<[kind |-> "checklist", page_num |-> Head(groups).checklist.page_num]>>
       \o [j \in 1..Len(Head(groups).matching_labels) |->
             [kind |-> "label", page_num |-> Head(groups).matching_labels[j].page_num]]
       \o create_organized_pdf(Tail(groups))

Init1 ==
  /\ checklist_file \in Uploads(ChecklistTexts1, MaxChecklistPages)
  /\ labels_file \in Uploads(LabelTexts1, MaxLabelPages)
  /\ csv_data \in CsvInputs1
  /\ pc = "request"
  /\ sku_mapping = EmptyDict
  /\ checklists = <<>>
  /\ labels = <<>>
  /\ labels_by_sku = [k \in {} |-> <<>>]
  /\ matched_label_pages = {}
  /\ matched_groups = <<>>
  /\ unmatched_labels = <<>>
  /\ writer = <<>>
  /\ written = 0
  /\ response = NoResponse
  /\ other = NoRequest

\* 193-213: both parts must be uploaded; the files are saved.
SaveUploads ==
  /\ pc = "request"
  /\ IF ~checklist_file.present \/ ~labels_file.present
     THEN /\ response' = Error(400, "Missing required files")
          /\ pc' = "error"
     ELSE /\ pc' = "process"
          /\ UNCHANGED response
  /\ UNCHANGED <<other, checklist_file, labels_file, csv_data, sku_mapping, checklists, labels,
                 labels_by_sku, matched_label_pages, matched_groups, unmatched_labels,
                 writer, written>>

\* 219-220: both documents are parsed.
ProcessPdf ==
  /\ pc = "process"
  /\ checklists' = process_pdf_checklist(checklist_file.pages)
  /\ labels' = process_pdf_labels(labels_file.pages)
  /\ pc' = "match"
  /\ UNCHANGED <<other, checklist_file, labels_file, csv_data, sku_mapping, labels_by_sku,
                 matched_label_pages, matched_groups, unmatched_labels, writer, written,
                 response>>

\* 91-95, 243-244: PdfReader or pdfplumber raises; the handler answers 500.
PdfUnreadable ==
  /\ pc = "process"
  /\ response' = Error(500, "unreadable PDF")
  /\ pc' = "error"
  /\ UNCHANGED <<other, checklist_file, labels_file, csv_data, sku_mapping, checklists, labels,
                 labels_by_sku, matched_label_pages, matched_groups, unmatched_labels,
                 writer, written>>

\* 223: match_by_sku, or the TypeError it raises caught at 243-244.
MatchBySku ==
  /\ pc = "match"
  /\ sku_mapping' = (IF csv_data # <<>> THEN read_csv(csv_data, EmptyDict) ELSE EmptyDict)
  /\ IF match_raises(checklists, labels)
     THEN /\ response' = Error(500, "'in <string>' requires string as left operand, not NoneType")
          /\ pc' = "error"
          /\ UNCHANGED matched_groups
     ELSE /\ matched_groups' = match_by_sku(checklists, labels, sku_mapping')
          /\ pc' = "create"
          /\ UNCHANGED response
  /\ UNCHANGED <<other, checklist_file, labels_file, csv_data, checklists, labels, labels_by_sku,
                 matched_label_pages, unmatched_labels, writer, written>>

\* 226-241: the organized document is written and the success answer is sent.
CreateOrganizedPdf ==
  /\ pc = "create"
  /\ writer' = create_organized_pdf(matched_groups)
  /\ written' = Len(matched_groups)
  /\ response' = SendFile(writer')
  /\ pc' = "done"
  /\ UNCHANGED <<other, checklist_file, labels_file, csv_data, sku_mapping, checklists, labels,
                 labels_by_sku, matched_label_pages, matched_groups, unmatched_labels>>

Next1 ==
  \/ SaveUploads
  \/ ProcessPdf
  \/ PdfUnreadable
  \/ MatchBySku
  \/ CreateOrganizedPdf

Spec1 == Init1 /\ [][Next1]_vars

\* ------------------------------------------------------------------ two requests
\* Two organize_pdfs requests served at the same time.  Every name the
\* handler assigns is a local of the call: the first request runs on the
\* variables above, the second on the fields of `other`, one step at a time
\* in any order.
\* The uploads of the requests that are served together.
TwoRequests ==
  { [checklist_file |-> [present |-> TRUE, pages |-> << <<"N5-96TU-TT9Z", "2">> >>],
     labels_file |-> [present |-> TRUE, pages |-> << <<"N5-96TU-TT9Z">>, <<"Order">> >>],
     csv_data |-> <<>>],
    [checklist_file |-> [present |-> TRUE,
                         pages |-> << <<"B0090IFLG6", "1", "N5-96TU-TT9Z", "1">>,
                                      <<"Y2-CCCC-DDDD">> >>],
     labels_file |-> [present |-> TRUE,
                      pages |-> << <<"B0090IFLG6", "Qty:", "2">>, <<"N5-96TU-TT9Z">> >>],
     csv_data |-> << <<"Y2-CCCC-DDDD", " B0090IFLG6">>, <<"N5-96TU-TT9Z ", "B0090IFLG6">> >>],
    [checklist_file |-> [present |-> TRUE, pages |-> << <<"Y2-CCCC-DDDD">> >>],
     labels_file |-> [present |-> TRUE,
                      pages |-> << <<"Order">>, <<"B0090IFLG6", "Y2-CCCC-DDDD", "QTY", "1">> >>],
     csv_data |-> <<>>] }

InitTwo ==
  \E a, b \in TwoRequests :
    /\ checklist_file = a.checklist_file
    /\ labels_file = a.labels_file
    /\ csv_data = a.csv_data
    /\ pc = "request"
    /\ sku_mapping = EmptyDict
    /\ checklists = <<>>
    /\ labels = <<>>
    /\ labels_by_sku = [k \in {} |-> <<>>]
    /\ matched_label_pages = {}
    /\ matched_groups = <<>>
    /\ unmatched_labels = <<>>
    /\ writer = <<>>
    /\ written = 0
    /\ response = NoResponse
    /\ other = Request(b.checklist_file, b.labels_file, b.csv_data)

\* 393-419 in the second request.
ReceiveRequest2 ==
  /\ other.pc = "request"
  /\ other' =
       IF ~other.checklist_file.present
       THEN [other EXCEPT !.response = Error(400, "No checklist file uploaded"), !.pc = "error"]
       ELSE IF ~other.labels_file.present
       THEN [other EXCEPT !.response = Error(400, "No labels file uploaded"), !.pc = "error"]
       ELSE [other EXCEPT !.sku_mapping = (IF other.csv_data # <<>>
                                           THEN parse_csv(other.csv_data, EmptyDict)
                                           ELSE EmptyDict),
                          !.pc = "checklist"]
  /\ UNCHANGED own

\* 421-477 in the second request.
ProcessChecklist2 ==
  /\ other.pc = "checklist"
  /\ LET parsed == parse_checklist(other.checklist_file.pages, 1)
     IN other' =
          IF parsed = <<>>
          THEN [other EXCEPT !.response = Error(400, "No SKUs found in checklist PDF"),
                             !.pc = "error"]
          ELSE [other EXCEPT !.checklists = parsed, !.pc = "labels"]
  /\ UNCHANGED own

\* 479-535 in the second request.
ProcessLabels2 ==
  /\ other.pc = "labels"
  /\ LET parsed == parse_labels(other.labels_file.pages)
     IN other' = [other EXCEPT !.labels = parsed,
                               !.labels_by_sku = index_labels(parsed),
                               !.matched_label_pages = {},
                               !.matched_groups = <<>>,
                               !.pc = "match"]
  /\ UNCHANGED own

\* Mutant: matched_label_pages is one set for all requests.
MatchChecklist2_shared ==
  /\ other.pc = "match"
  /\ Len(other.matched_groups) < Len(other.checklists)
  /\ LET checklist == other.checklists[Len(other.matched_groups) + 1]
         st == match_checklist(checklist, matched_label_pages, other.labels_by_sku,
                               other.sku_mapping)
     IN /\ other' = [other EXCEPT
                       !.matched_groups =
                          Append(@, [checklist |-> checklist,
                                     matching_labels |-> st.matching_labels]),
                       !.matched_label_pages = st.matched_label_pages]
        /\ matched_label_pages' = st.matched_label_pages
  /\ UNCHANGED <<checklist_file, labels_file, csv_data, pc, sku_mapping, checklists, labels,
                 labels_by_sku, matched_groups, unmatched_labels, writer, written, response>>

\* 537-570 in the second request.
MatchChecklist2 ==
  /\ other.pc = "match"
  /\ Len(other.matched_groups) < Len(other.checklists)
  /\ LET checklist == other.checklists[Len(other.matched_groups) + 1]
         st == match_checklist(checklist, other.matched_label_pages, other.labels_by_sku,
                               other.sku_mapping)
     IN other' = [other EXCEPT
                    !.matched_groups =
                       Append(@, [checklist |-> checklist,
                                  matching_labels |-> st.matching_labels]),
                    !.matched_label_pages = st.matched_label_pages]
  /\ UNCHANGED own

\* 573-592 in the second request.
AddSummaryPage2 ==
  /\ other.pc = "match"
  /\ Len(other.matched_groups) = Len(other.checklists)
  /\ LET unmatched == find_unmatched(other.labels, other.matched_label_pages)
     IN other' = [other EXCEPT
                    !.unmatched_labels = unmatched,
                    !.writer = <<summary_page(other.matched_groups, unmatched,
                                              Len(other.labels))>>,
                    !.written = 0,
                    !.pc = "assemble"]
  /\ UNCHANGED own

\* 595-616 in the second request.
AddGroup2 ==
  /\ other.pc = "assemble"
  /\ other.written < Len(other.matched_groups)
  /\ other' = [other EXCEPT
                 !.writer = @ \o group_pages(other.matched_groups[other.written + 1]),
                 !.written = @ + 1]
  /\ UNCHANGED own

\* 618-652 in the second request.
Finish2 ==
  /\ other.pc = "assemble"
  /\ other.written = Len(other.matched_groups)
  /\ LET pages == other.writer \o unmatched_pages(other.unmatched_labels)
     IN other' = [other EXCEPT !.writer = pages, !.response = SendFile(pages), !.pc = "done"]
  /\ UNCHANGED own

\* The second request fails: a document cannot be read (423-429, 466-470,
\* 481-487, 516-520) or a page cannot be drawn (92-94, 654-658).
Failure2 ==
  /\ \/ /\ other.pc = "checklist"
        /\ \E r \in {Error(400, "Could not read checklist PDF"),
                     Error(500, "Error extracting text from checklist")} :
             other' = [other EXCEPT !.response = r, !.pc = "error"]
     \/ /\ other.pc = "labels"
        /\ \E r \in {Error(400, "Could not read labels PDF"),
                     Error(500, "Error extracting text from labels")} :
             other' = [other EXCEPT !.response = r, !.pc = "error"]
     \/ /\ other.pc = "assemble"
        /\ other.written < Len(other.matched_groups)
        /\ other' = [other EXCEPT !.response = Error(500, "Error creating final PDF"),
                                  !.pc = "error"]
  /\ UNCHANGED own

NextTwo ==
  \/ Next
  \/ ReceiveRequest2
  \/ ProcessChecklist2
  \/ ProcessLabels2
  \/ MatchChecklist2
  \/ AddSummaryPage2
  \/ AddGroup2
  \/ Finish2
  \/ Failure2

SpecTwo == InitTwo /\ [][NextTwo]_vars

\* ------------------------------------------------------------------ claims
\* The label page numbers of a list of label records.
PageNums(lbls) == {lbls[i].page_num : i \in 1..Len(lbls)}

\* The label page numbers of the i-th match group.
GroupPageNums(i) == PageNums(matched_groups[i].matching_labels)

\* The unmatched list has been computed (573).
MatchingDone == pc \in {"assemble", "done"}

\* C1: each label page is assigned to at most one match group, also when two
\* checklist pages list the same code.
C1_AtMostOneGroup ==
  \A i, j \in 1..Len(matched_groups) :
    i # j => GroupPageNums(i) \cap GroupPageNums(j) = {}

\* C2: every page of the checklist document appears exactly once in the
\* output of a run that does not abort.
C2_EveryChecklistPageOnce ==
  pc = "done" =>
    \A i \in 1..Len(checklist_file.pages) :
      Cardinality({k \in 1..Len(response.pages) :
                     /\ response.pages[k].kind = "checklist"
                     /\ response.pages[k].page_num = i}) = 1

\* C3: after matching, the unmatched list holds exactly the label pages that
\* are in no match group, each once.
C3_UnmatchedIsComplement ==
  MatchingDone =>
    /\ PageNums(unmatched_labels) =
         (1..Len(labels_file.pages)) \ UNION {GroupPageNums(i) : i \in 1..Len(matched_groups)}
    /\ Cardinality(PageNums(unmatched_labels)) = Len(unmatched_labels)

\* C3 witness: a finished run with two groups holding labels and a label left over.
C3_Witness ==
  /\ pc = "done"
  /\ Len(matched_groups) = 2
  /\ \A i \in 1..2 : matched_groups[i].matching_labels # <<>>
  /\ unmatched_labels # <<>>

\* The label pages a checklist code stands for: those indexed under the code
\* itself when it is a key of labels_by_sku, else those under its CSV target.
Stands(sku) ==
  IF sku \in DOMAIN labels_by_sku THEN PageNums(labels_by_sku[sku])
  ELSE IF sku \in DOMAIN sku_mapping /\ sku_mapping[sku] \in DOMAIN labels_by_sku
       THEN PageNums(labels_by_sku[sku_mapping[sku]])
       ELSE {}

\* The codes of the i-th group's checklist.
GroupSkus(i) ==
  {matched_groups[i].checklist.skus[k] : k \in 1..Len(matched_groups[i].checklist.skus)}

\* C4: a checklist code that is a key of the label-code mapping brings in the
\* labels under the code itself; the CSV mapping decides only for the other codes.
C4_DirectBeforeAlias ==
  \A i \in 1..Len(matched_groups) :
    /\ GroupPageNums(i) = UNION {Stands(sku) : sku \in GroupSkus(i)}
    /\ \A sku \in GroupSkus(i) \cap DOMAIN labels_by_sku :
         PageNums(labels_by_sku[sku]) \subseteq GroupPageNums(i)

\* C4 witness: a code with labels of its own is also mapped by the CSV to another
\* code that has labels, and the group holds none of the latter.
C4_Witness ==
  \E i \in 1..Len(matched_groups) :
    \E sku \in GroupSkus(i) \cap DOMAIN labels_by_sku \cap DOMAIN sku_mapping :
      /\ sku_mapping[sku] \in DOMAIN labels_by_sku
      /\ sku_mapping[sku] # sku
      /\ PageNums(labels_by_sku[sku_mapping[sku]]) \cap GroupPageNums(i) = {}

\* The banner on the checklist page of the i-th group, once it is written.
OverlayOf(i) ==
  LET k == CHOOSE k \in 1..Len(writer) :
             /\ writer[k].kind = "checklist"
             /\ writer[k].page_num = matched_groups[i].checklist.page_num
  IN writer[k].content

RECURSIVE SetQty(_)
\* The unit quantities of a set of label pages, each page once.
SetQty(pages) ==
  IF pages = {} THEN 0
  ELSE LET p == CHOOSE x \in pages : TRUE
       IN labels[p].qty + SetQty(pages \ {p})

\* C5: a match group holds each label page at most once, and its actual
\* quantity counts each of its label pages once.
C5_OncePerGroup ==
  /\ \A i \in 1..Len(matched_groups) :
       Cardinality(GroupPageNums(i)) = Len(matched_groups[i].matching_labels)
  /\ MatchingDone =>
       \A i \in 1..written : OverlayOf(i).actual = SetQty(GroupPageNums(i))

\* C5 witness: two different codes of one checklist stand for the same label
\* page, one of them through the CSV mapping.
C5_Witness ==
  /\ pc = "done"
  /\ \E i \in 1..written :
       \E s1, s2 \in GroupSkus(i) :
         /\ s1 # s2
         /\ s1 \in DOMAIN labels_by_sku
         /\ s2 \notin DOMAIN labels_by_sku
         /\ Stands(s1) \cap Stands(s2) # {}

RECURSIVE SumTo(_, _)
\* f[1] + ... + f[n]
SumTo(f, n) == IF n = 0 THEN 0 ELSE f[n] + SumTo(f, n - 1)

\* C6: the actual quantity of a group is the sum of the unit quantities of its
\* labels (1 for a label without a Qty marker) and the expected quantity is the
\* sum of the declared quantities of the checklist's codes.
C6_QuantitiesAreSums ==
  MatchingDone =>
    \A i \in 1..written :
      LET g == matched_groups[i]
          unit == [k \in 1..Len(g.matching_labels) |->
                     LET text == labels_file.pages[g.matching_labels[k].page_num]
                     IN IF \E m \in 1..(Len(text) - 1) :
                             text[m] \in QtyMarkers /\ text[m + 1] \in DigitTokens
                        THEN g.matching_labels[k].qty
                        ELSE 1]
          declared == [k \in 1..Len(g.checklist.skus) |->
                         g.checklist.sku_quantities[g.checklist.skus[k]]]
      IN /\ OverlayOf(i).actual = SumTo(unit, Len(g.matching_labels))
         /\ OverlayOf(i).expected = SumTo(declared, Len(g.checklist.skus))

\* C6 witness: three labels with quantity 2 each, reached through the CSV
\* mapping, give an actual quantity of 6.
C6_Witness ==
  /\ pc = "done"
  /\ \E i \in 1..written :
       LET g == matched_groups[i]
       IN /\ Len(g.matching_labels) = 3
          /\ \A k \in 1..3 : g.matching_labels[k].qty = 2
          /\ GroupSkus(i) \cap DOMAIN labels_by_sku = {}
          /\ OverlayOf(i).actual = 6

\* The banners of the checklist pages written so far.
Overlays == {writer[k].content : k \in {j \in 1..Len(writer) : writer[j].kind = "checklist"}}

\* C7: every banner has exactly one of the three statuses: MATCH iff actual =
\* expected, SURPLUS iff actual > expected with count actual - expected,
\* SHORTAGE iff actual < expected with count expected - actual.
C7_StatusClassification ==
  \A o \in Overlays :
    /\ o.status \in {"MATCH", "SURPLUS", "SHORTAGE"}
    /\ o.status = "MATCH" <=> o.actual = o.expected
    /\ o.status = "SURPLUS" <=> o.actual > o.expected
    /\ o.status = "SHORTAGE" <=> o.actual < o.expected
    /\ o.status = "SURPLUS" => o.count = o.actual - o.expected
    /\ o.status = "SHORTAGE" => o.count = o.expected - o.actual

\* C7 witness: the banner for expected 3, actual 2 is drawn: SHORTAGE, 1 missing.
C7_Witness ==
  \E o \in Overlays :
    /\ o.expected = 3 /\ o.actual = 2
    /\ o.status = "SHORTAGE" /\ o.count = 1

\* The label pages on which no item code is recognized.
CodelessPages ==
  {p \in 1..Len(labels_file.pages) : extract_skus_from_text(labels_file.pages[p]) = <<>>}

\* C8: a label page without a recognized code is in no match group and, once
\* matching is over, in the unmatched list.
C8_CodelessUnmatched ==
  \A p \in CodelessPages :
    /\ \A i \in 1..Len(matched_groups) : p \notin GroupPageNums(i)
    /\ MatchingDone => p \in PageNums(unmatched_labels)

\* C8 witness: a codeless label next to matched labels, with a CSV mapping
\* whose target for a checklist code is the empty string.
C8_Witness ==
  /\ pc = "done"
  /\ CodelessPages # {}
  /\ \E i \in 1..Len(matched_groups) : GroupPageNums(i) # {}
  /\ \E i \in 1..Len(matched_groups) :
       \E sku \in GroupSkus(i) \cap DOMAIN sku_mapping : sku_mapping[sku] = ""

RECURSIVE Start(_)
\* The place in the output where the i-th group begins: after the summary
\* page and the pages of the groups before it.
Start(i) ==
  IF i = 1 THEN 2
  ELSE Start(i - 1) + 1 + Len(matched_groups[i - 1].matching_labels)

\* C9: the output is the summary page, then every group in ascending checklist
\* page order as its checklist page followed by its labels, then, iff a label is
\* unmatched, one separator page and the unmatched labels in document order.
C9_OutputOrder ==
  /\ writer # <<>> =>
       /\ writer[1].kind = "summary"
       /\ \A k \in 2..Len(writer) : writer[k].kind # "summary"
  /\ \A k1, k2 \in 1..Len(writer) :
       /\ (k1 < k2 /\ writer[k1].kind = "separator") => writer[k2].kind = "label"
       /\ (k1 < k2 /\ writer[k1].kind = "checklist" /\ writer[k2].kind = "checklist")
            => writer[k1].page_num < writer[k2].page_num
  /\ MatchingDone =>
       /\ \A i \in 1..written :
            LET g == matched_groups[i]
            IN /\ writer[Start(i)].kind = "checklist"
               /\ writer[Start(i)].page_num = g.checklist.page_num
               /\ \A j \in 1..Len(g.matching_labels) :
                    /\ writer[Start(i) + j].kind = "label"
                    /\ writer[Start(i) + j].page_num = g.matching_labels[j].page_num
       /\ pc = "assemble" => Len(writer) = Start(written + 1) - 1
       /\ pc = "done" =>
            LET e == Start(Len(matched_groups) + 1)
            IN /\ written = Len(matched_groups)
               /\ response.pages = writer
               /\ unmatched_labels = <<>> => Len(writer) = e - 1
               /\ unmatched_labels # <<>> =>
                    /\ Len(writer) = e + Len(unmatched_labels)
                    /\ writer[e].kind = "separator"
                    /\ \A j \in 1..Len(unmatched_labels) :
                         /\ writer[e + j].kind = "label"
                         /\ writer[e + j].page_num = unmatched_labels[j].page_num
                    /\ \A j1, j2 \in 1..Len(unmatched_labels) :
                         j1 < j2 => unmatched_labels[j1].page_num < unmatched_labels[j2].page_num

\* C9 witness: an output with two groups that hold labels and an unmatched section.
C9_Witness ==
  /\ pc = "done"
  /\ Len(matched_groups) = 2
  /\ \A i \in 1..2 : matched_groups[i].matching_labels # <<>>
  /\ Len(unmatched_labels) >= 2
  /\ Len(response.pages) = Start(3) + Len(unmatched_labels)

\* The first place on the i-th group's checklist page, counted in tokens of
\* its text, of a code that stands for label page p.
ListedPos(i, p) ==
  LET text == matched_groups[i].checklist.text
      at == {m \in 1..Len(text) : text[m] \in GroupSkus(i) /\ p \in Stands(text[m])}
  IN CHOOSE m \in at : \A n \in at : m <= n

\* The first place in the i-th group's extracted code list of a code that
\* stands for label page p.
SkuPos(i, p) ==
  LET skus == matched_groups[i].checklist.skus
      at == {m \in 1..Len(skus) : p \in Stands(skus[m])}
  IN CHOOSE m \in at : \A n \in at : m <= n

\* C10 as claimed: within a group, labels are ordered by the place on the
\* checklist page of the code that brought them in, then by label page order.
C10_OrderedAsListed ==
  \A i \in 1..Len(matched_groups) :
    LET ml == matched_groups[i].matching_labels
    IN \A x, y \in 1..Len(ml) :
         x < y =>
           \/ ListedPos(i, ml[x].page_num) < ListedPos(i, ml[y].page_num)
           \/ /\ ListedPos(i, ml[x].page_num) = ListedPos(i, ml[y].page_num)
              /\ ml[x].page_num < ml[y].page_num

\* C10 as amended: within a group, labels are ordered by the place in the
\* checklist's extracted code list (checklist['skus']) of the first code that
\* stands for them, then by label page order.
C10_OrderedAsExtracted ==
  \A i \in 1..Len(matched_groups) :
    LET ml == matched_groups[i].matching_labels
    IN \A x, y \in 1..Len(ml) :
         x < y =>
           \/ SkuPos(i, ml[x].page_num) < SkuPos(i, ml[y].page_num)
           \/ /\ SkuPos(i, ml[x].page_num) = SkuPos(i, ml[y].page_num)
              /\ ml[x].page_num < ml[y].page_num

\* C10 witness: a group whose two codes both brought in labels, one of them
\* two labels, on a page that lists the codes in the other order than extracted.
C10_Witness ==
  /\ pc = "done"
  /\ \E i \in 1..Len(matched_groups) :
       LET ml == matched_groups[i].matching_labels
       IN /\ Len(ml) = 3
          /\ SkuPos(i, ml[1].page_num) = 1
          /\ SkuPos(i, ml[2].page_num) = 2
          /\ SkuPos(i, ml[3].page_num) = 2
          /\ ListedPos(i, ml[1].page_num) > ListedPos(i, ml[2].page_num)

\* A document is absent or has no page.
Missing(file) == ~file.present \/ file.pages = <<>>

\* C11: with the checklist or the label document absent or empty, the run
\* aborts: nothing is parsed, matched or assembled and no document is sent.
C11_MissingInputAborts ==
  (Missing(checklist_file) \/ Missing(labels_file)) =>
    /\ checklists = <<>>
    /\ labels = <<>>
    /\ matched_groups = <<>>
    /\ writer = <<>>
    /\ pc # "done"
    /\ response.pages = <<>>

\* No page of the uploaded checklist document yields an item code.
NoCodeInChecklist ==
  /\ checklist_file.present
  /\ labels_file.present
  /\ \A i \in 1..Len(checklist_file.pages) :
       extract_skus_from_text(checklist_file.pages[i]) = <<>>

\* The answers given when PdfReader or pdfplumber cannot read the checklist.
ChecklistReadErrors == {"Could not read checklist PDF", "Error extracting text from checklist"}

\* C12: when no checklist page yields an item code the run aborts with the
\* no-SKUs error (unless the document cannot be read at all): no label is
\* parsed, no group is built, no document is sent.
C12_NoIdentifiersAborts ==
  NoCodeInChecklist =>
    /\ pc \in {"request", "checklist", "error"}
    /\ labels = <<>>
    /\ labels_by_sku = <<>>
    /\ matched_groups = <<>>
    /\ writer = <<>>
    /\ response.pages = <<>>
    /\ pc = "error" =>
         /\ response.code # 200
         /\ response.error \notin ChecklistReadErrors =>
              /\ response.code = 400
              /\ response.error = "No SKUs found in checklist PDF"

\* C12 witness: a two-page checklist without codes and a label document with
\* pages end in the no-SKUs error.
C12_Witness ==
  /\ pc = "error"
  /\ response = Error(400, "No SKUs found in checklist PDF")
  /\ Len(checklist_file.pages) = 2
  /\ Len(labels_file.pages) >= 2

\* The checklist pages of a page sequence.
ChecklistPagesIn(pages) == {k \in 1..Len(pages) : pages[k].kind = "checklist"}

\* C13: a failure of create_status_overlay, at whatever group, ends the run
\* with an error answer without a document; an error answer is final; and a
\* document that is sent holds every match group.
C13_RenderFailureIsFatal ==
  [][/\ pc # "error"
     /\ (pc = "assemble" /\ pc' = "error") =>
          /\ response'.code = 500
          /\ response'.pages = <<>>
     /\ response'.pages # <<>> =>
          /\ pc' = "done"
          /\ Cardinality(ChecklistPagesIn(response'.pages)) = Len(matched_groups)]_vars

\* C13 witness: the banner of the second group fails after the first group
\* has been written.
C13_Witness ==
  /\ pc = "error"
  /\ response = Error(500, "Error creating final PDF")
  /\ Len(matched_groups) = 2
  /\ written = 1
  /\ Len(writer) >= 3

\* The summary page has been drawn.
SummaryDrawn == writer # <<>> /\ writer[1].kind = "summary"

\* C14: on the summary page a "more" line is shown exactly when an entry is
\* not listed, and it states the number of entries not listed, for the groups
\* and for the unmatched labels.
C14_MoreLinesExact ==
  SummaryDrawn =>
    LET s == writer[1].content
    IN /\ s.more_orders.shown <=> Len(s.listed) < Len(matched_groups)
       /\ s.more_orders.shown => s.more_orders.n = Len(matched_groups) - Len(s.listed)
       /\ s.more_unmatched.shown <=> Len(s.unmatched_listed) < Len(unmatched_labels)
       /\ s.more_unmatched.shown =>
            s.more_unmatched.n = Len(unmatched_labels) - Len(s.unmatched_listed)

\* C19: for every group listed on the summary page, "Pages: a-b" are the
\* places of the group in the document sent: a is the place of its checklist
\* page, b of its last label page (b = a without labels); the first group
\* starts on page 2.
C19_PageRangesMatchOutput ==
  pc = "done" =>
    LET rows == response.pages[1].content.listed
    IN /\ matched_groups # <<>> => rows # <<>> /\ rows[1].first_page = 2
       /\ \A r \in 1..Len(rows) :
            LET g == matched_groups[rows[r].index]
                a == rows[r].first_page
                b == rows[r].last_page
            IN /\ b - a = Len(g.matching_labels)
               /\ b <= Len(response.pages)
               /\ response.pages[a].kind = "checklist"
               /\ response.pages[a].page_num = g.checklist.page_num
               /\ \A j \in 1..Len(g.matching_labels) :
                    /\ response.pages[a + j].kind = "label"
                    /\ response.pages[a + j].page_num = g.matching_labels[j].page_num
               /\ b < Len(response.pages) =>
                    response.pages[b + 1].kind \in {"checklist", "separator"}

\* C19 witness: two groups, the first with two labels on pages 2-4, the
\* second with a label from page 5 on.
C19_Witness ==
  /\ pc = "done"
  /\ Len(matched_groups) = 2
  /\ LET rows == response.pages[1].content.listed
     IN /\ rows[1].first_page = 2 /\ rows[1].last_page = 4
        /\ rows[2].first_page = 5 /\ rows[2].last_page > 5

\* The checklist pages that carry at least one item code.
CodedPages == {i \in 1..Len(checklist_file.pages) :
                 extract_skus_from_text(checklist_file.pages[i]) # <<>>}

\* The places of the document sent that hold checklist page i.
PlacesOf(i) == {k \in 1..Len(response.pages) :
                  response.pages[k].kind = "checklist" /\ response.pages[k].page_num = i}

\* C15: a code without a printed quantity or without any matching label
\* never aborts the run.  Once the matcher is through, every checklist page
\* with a code has exactly one group (possibly without labels); the run can
\* always take its next step; when it ends with an error, the error is a
\* document that could not be read or a page that could not be drawn; and
\* the document sent holds every such page exactly once.
C15_MissingDataIsNotAnError ==
  /\ MatchingDone =>
       /\ Len(matched_groups) = Cardinality(CodedPages)
       /\ \A i \in CodedPages :
            Cardinality({g \in 1..Len(matched_groups) :
                           matched_groups[g].checklist.page_num = i}) = 1
  /\ pc \in {"labels", "match", "assemble"} =>
       ENABLED (ProcessLabels \/ MatchChecklist \/ AddSummaryPage \/ AddGroup \/ Finish)
  /\ (pc = "error" /\ checklists # <<>>) =>
       response.error \in {"Could not read labels PDF", "Error extracting text from labels",
                           "Error creating final PDF"}
  /\ pc = "done" =>
       /\ response.code = 200
       /\ \A i \in CodedPages : Cardinality(PlacesOf(i)) = 1

\* C15 witness: a finished run whose document holds a group without labels
\* for a page whose code has no printed quantity.
C15_Witness ==
  /\ pc = "done"
  /\ response.code = 200
  /\ \E g \in 1..Len(matched_groups) :
       /\ matched_groups[g].matching_labels = <<>>
       /\ sum_values(matched_groups[g].checklist.sku_quantities) = 0
       /\ Cardinality(PlacesOf(matched_groups[g].checklist.page_num)) = 1
       /\ labels # <<>>

\* The distinct item codes extracted from a page text.
CodesOf(text) ==
  LET skus == extract_skus_from_text(text) IN {skus[k] : k \in 1..Len(skus)}

\* C18: a label page is indexed under every distinct code extracted from it,
\* so a label that carries a code of a checklist page, first in extraction
\* order or not, is in the group of that checklist page.
C18_IndexedUnderEveryCode ==
  MatchingDone =>
    \A i \in 1..Len(labels) :
      /\ \A sku \in CodesOf(labels[i].text) :
           /\ sku \in DOMAIN labels_by_sku
           /\ labels[i].page_num \in PageNums(labels_by_sku[sku])
      /\ \A g \in 1..Len(matched_groups) :
           CodesOf(labels[i].text) \cap CodesOf(matched_groups[g].checklist.text) # {}
             => labels[i].page_num \in PageNums(matched_groups[g].matching_labels)

\* C17: in the match_by_sku / create_organized_pdf pipeline no label page is
\* dropped: every page of the label document is in the document written,
\* also a label page that matches no checklist page.
C17_NoLabelDropped ==
  pc = "done" =>
    \A i \in 1..Len(labels_file.pages) :
      \E k \in 1..Len(response.pages) :
        response.pages[k].kind = "label" /\ response.pages[k].page_num = i

RECURSIVE match_all(_, _, _, _)
\* The matcher run over all checklists in one go.
match_all(chks, by_sku, mapping, acc) ==
  IF chks = <<>> THEN acc
  ELSE LET st == match_checklist(Head(chks), acc.matched, by_sku, mapping)
       IN match_all(Tail(chks), by_sku, mapping,
                    [groups |-> Append(acc.groups, [checklist |-> Head(chks),
                                                    matching_labels |-> st.matching_labels]),
                     matched |-> st.matched_label_pages])

\* What a request with these uploads produces when it is the only one.
Alone(cf, lf, csv) ==
  LET mapping == IF csv # <<>> THEN parse_csv(csv, EmptyDict) ELSE EmptyDict
      lbls == parse_labels(lf.pages)
      m == match_all(parse_checklist(cf.pages, 1), index_labels(lbls), mapping,
                     [groups |-> <<>>, matched |-> {}])
  IN [groups |-> m.groups,
      unmatched |-> find_unmatched(lbls, m.matched),
      statuses |-> [g \in 1..Len(m.groups) |->
                      create_status_overlay(sum_values(m.groups[g].checklist.sku_quantities),
                                            sum_qty(m.groups[g].matching_labels)).status]]

\* The statuses on the checklist pages of a document, in order.
StatusesOf(pages) ==
  LET cs == SelectSeq(pages, LAMBDA page : page.kind = "checklist")
  IN [k \in 1..Len(cs) |-> cs[k].content.status]

\* The request r has the groups, the unmatched labels and the statuses it
\* has when run alone.
AsAlone(r) ==
  LET alone == Alone(r.checklist_file, r.labels_file, r.csv_data)
  IN /\ r.pc \in {"assemble", "done"} =>
          /\ r.matched_groups = alone.groups
          /\ r.unmatched_labels = alone.unmatched
     /\ r.pc = "done" => StatusesOf(r.response.pages) = alone.statuses

\* The first request as a record.
First ==
  [checklist_file |-> checklist_file, labels_file |-> labels_file, csv_data |-> csv_data,
   pc |-> pc, sku_mapping |-> sku_mapping, checklists |-> checklists, labels |-> labels,
   labels_by_sku |-> labels_by_sku, matched_label_pages |-> matched_label_pages,
   matched_groups |-> matched_groups, unmatched_labels |-> unmatched_labels,
   writer |-> writer, written |-> written, response |-> response]

\* C16: however the steps of two requests interleave, each request has the
\* match groups, the unmatched labels and the statuses it has when it runs
\* alone: the consumed-label set, the label-code mapping and the alias table
\* a request works with are the ones built from its own uploads.
C16_RequestsAreIsolated ==
  /\ AsAlone(First)
  /\ AsAlone(other)
  /\ \A r \in {First, other} :
       r.pc \in {"match", "assemble", "done"} =>
         /\ r.sku_mapping = (IF r.csv_data # <<>> THEN parse_csv(r.csv_data, EmptyDict)
                             ELSE EmptyDict)
         /\ r.labels_by_sku = index_labels(parse_labels(r.labels_file.pages))
         /\ r.matched_label_pages \subseteq 1..Len(r.labels_file.pages)

\* C16 witness: two different requests both finished, the first with an
\* unmatched label on a page number that the second has matched.
C16_Witness ==
  /\ pc = "done"
  /\ other.pc = "done"
  /\ other.labels_file # labels_file
  /\ \E i \in 1..Len(unmatched_labels) :
       unmatched_labels[i].page_num \in other.matched_label_pages
  /\ \E g \in 1..Len(matched_groups) : matched_groups[g].matching_labels # <<>>

====
